---- MODULE Spec2Model ----
(***************************************************************************)
(* The evaluator dashboard (src/src/pages/EvaluatorDashboard.tsx): the     *)
(* identity check, the two set builders (the queryFn of the pendingPlans   *)
(* and reviewedPlans queries), the statistics aggregator and the review    *)
(* mutation, with the query cache that runs the builders.                  *)
(*                                                                         *)
(* Two specifications:                                                     *)
(*   SpecFn  the builders and the aggregator as functions of their inputs: *)
(*           any identity sets, any answer of the remote store;            *)
(*   Spec    the mounted component: identity check, query observers,       *)
(*           fetches in flight, tab changes, selection, submits, timers.   *)
(***************************************************************************)
EXTENDS Integers, Sequences, FiniteSets, TLC

\* ------------------------------------------------------------------ bounds

\* submission ids are 1..MaxPlans
MaxPlans == 2
\* a submission carries at most MaxReviews decision records
MaxReviews == 2
\* SpecFn: the answers of the remote store hold at most MaxResp submissions in all
MaxResp == 2
\* Spec: handleReviewSubmit is invoked at most MaxSubmits times
MaxSubmits == 1
\* SpecNotices: handleReviewSubmit is invoked at most MaxNoticeSubmits times
MaxNoticeSubmits == 2

\* ------------------------------------------------------------------ constants

\* setTimeout(() => setSuccess(null), 3000)
SuccessDelay == 3000
\* setTimeout(() => setError(null), 5000)
ErrorDelay == 5000

\* ------------------------------------------------------------------ data

PlanIds == 1 .. MaxPlans

Statuses == {"SUBMITTED", "APPROVED", "REJECTED"}

\* role-record ids that occur as review.evaluator
ReviewerIds == {7, 9}

Reviews == [evaluator : ReviewerIds]

RECURSIVE SeqsUpTo(_, _)
SeqsUpTo(S, n) ==
    IF n = 0 THEN {<<>>}
    ELSE LET shorter == SeqsUpTo(S, n - 1)
         IN  shorter \cup {Append(s, x) : s \in {t \in shorter : Len(t) = n - 1}, x \in S}

\* plan.organization: submission i belongs to organization 1 or 2
OrgOf(id) == ((id - 1) % 2) + 1

\* plan.reviews is absent (hasReviews = FALSE) or an array
ReviewLists ==
    {[hasReviews |-> FALSE, reviews |-> <<>>]}
        \cup {[hasReviews |-> TRUE, reviews |-> r] : r \in SeqsUpTo(Reviews, MaxReviews)}

MkPlan(id, status, rl) ==
    [id |-> id, status |-> status, organization |-> OrgOf(id),
     hasReviews |-> rl.hasReviews, reviews |-> rl.reviews]

Plans == {MkPlan(id, s, rl) : id \in PlanIds, s \in Statuses, rl \in ReviewLists}

\* ------------------------------------------------------------------ builders

\* organizationsMap[String(plan.organization)] || `Organization ${plan.organization}`
OrganizationName(orgMap, org) ==
    IF org \in DOMAIN orgMap /\ orgMap[org] # ""
    THEN orgMap[org]
    ELSE "Organization " \o ToString(org)

\* plan.reviews.some(review => currentEvaluatorIds.includes(review.evaluator))
SomeReviewBy(plan, evalIds) ==
    \E i \in 1 .. Len(plan.reviews) : plan.reviews[i].evaluator \in evalIds

\* mutant of PendingFilter: the review test is left out
PendingFilterStatusOnly(plan, evalIds) == plan.status = "SUBMITTED"

\* the callback of plans.filter in the pendingPlans queryFn
PendingFilter(plan, evalIds) ==
    IF plan.status # "SUBMITTED" THEN FALSE
    ELSE IF plan.hasReviews THEN ~SomeReviewBy(plan, evalIds)
    ELSE TRUE

RECURSIVE FilterSeq(_, _, _)
FilterSeq(s, evalIds, i) ==
    IF i > Len(s) THEN <<>>
    ELSE IF PendingFilter(s[i], evalIds)
         THEN <<s[i]>> \o FilterSeq(s, evalIds, i + 1)
         ELSE FilterSeq(s, evalIds, i + 1)

WithName(plan, orgMap) ==
    [id |-> plan.id, status |-> plan.status, organization |-> plan.organization,
     hasReviews |-> plan.hasReviews, reviews |-> plan.reviews,
     organizationName |-> OrganizationName(orgMap, plan.organization)]

\* mutant of GuardEmpty: the guard is left out
GuardNever(orgIds, evalIds) == FALSE

\* the guard both queryFns start with
GuardEmpty(orgIds, evalIds) == orgIds = {} \/ evalIds = {}

\* the remote calls one invocation of the pendingPlans queryFn issues
PendingRequests(orgIds, evalIds) ==
    IF GuardEmpty(orgIds, evalIds) THEN <<>>
    ELSE <<[status |-> "SUBMITTED", organization |-> orgIds, limit |-> 50]>>

\* what the pendingPlans queryFn returns; answers[1] is the outcome of its call
PendingQueryFn(orgIds, evalIds, orgMap, answers) ==
    IF GuardEmpty(orgIds, evalIds) THEN <<>>
    ELSE IF ~answers[1].ok THEN <<>>
    ELSE LET filteredPlans == FilterSeq(answers[1].plans, evalIds, 1)
         IN  [i \in 1 .. Len(filteredPlans) |-> WithName(filteredPlans[i], orgMap)]

\* mutant of FindReview: the last match instead of the first
FindReviewLast(reviews, evalIds, i) ==
    LET matches == {r \in i .. Len(reviews) : reviews[r].evaluator \in evalIds}
    IN  IF matches = {} THEN 0
        ELSE CHOOSE r \in matches : \A m \in matches : m <= r

\* plan.reviews.find(review => currentEvaluatorIds.includes(review.evaluator)):
\* the index of the first match from i on, 0 when there is none
RECURSIVE FindReview(_, _, _)
FindReview(reviews, evalIds, i) ==
    IF i > Len(reviews) THEN 0
    ELSE IF reviews[i].evaluator \in evalIds THEN i
    ELSE FindReview(reviews, evalIds, i + 1)

\* mutant of MapHas: the has() test is left out
MapHasNever(map, id) == FALSE

\* uniquePlansMap.has(plan.id); the Map is the sequence of its values in insertion order
MapHas(map, id) == \E i \in 1 .. Len(map) : map[i].id = id

WithReview(plan, orgMap, k) ==
    [id |-> plan.id, status |-> plan.status, organization |-> plan.organization,
     hasReviews |-> plan.hasReviews, reviews |-> plan.reviews,
     organizationName |-> OrganizationName(orgMap, plan.organization),
     currentEvaluatorReview |-> plan.reviews[k]]

\* the body of allPlans.forEach, applied to allPlans[i..]
RECURSIVE UniquePlans(_, _, _, _, _)
UniquePlans(allPlans, evalIds, orgMap, map, i) ==
    IF i > Len(allPlans) THEN map
    ELSE LET plan == allPlans[i]
             k == IF plan.hasReviews THEN FindReview(plan.reviews, evalIds, 1) ELSE 0
         IN  IF k > 0 /\ ~MapHas(map, plan.id)
             THEN UniquePlans(allPlans, evalIds, orgMap,
                              Append(map, WithReview(plan, orgMap, k)), i + 1)
             ELSE UniquePlans(allPlans, evalIds, orgMap, map, i + 1)

\* the remote calls one invocation of the reviewedPlans queryFn issues
ReviewedRequests(orgIds, evalIds) ==
    IF GuardEmpty(orgIds, evalIds) THEN <<>>
    ELSE <<[status |-> "APPROVED", organization |-> orgIds, limit |-> 50],
           [status |-> "REJECTED", organization |-> orgIds, limit |-> 50]>>

\* what the reviewedPlans queryFn returns; answers[1], answers[2] are the outcomes
\* of the APPROVED and of the REJECTED call
ReviewedQueryFn(orgIds, evalIds, orgMap, answers) ==
    IF GuardEmpty(orgIds, evalIds) THEN <<>>
    ELSE IF ~answers[1].ok \/ ~answers[2].ok THEN <<>>
    ELSE UniquePlans(answers[1].plans \o answers[2].plans, evalIds, orgMap, <<>>, 1)

\* ------------------------------------------------------------------ statistics

RECURSIVE IdsWith(_, _, _)
\* forEach over data[i..], adding p.id to a Set when p.status is one of statuses
IdsWith(data, statuses, i) ==
    IF i > Len(data) THEN {}
    ELSE IF data[i].status \in statuses
         THEN {data[i].id} \cup IdsWith(data, statuses, i + 1)
         ELSE IdsWith(data, statuses, i + 1)

\* mutant of Statistics: pendingCount is the raw length of the pending data
StatisticsByLength(pending, reviewed) ==
    LET p == IF pending.defined THEN pending.data ELSE <<>>
        r == IF reviewed.defined THEN reviewed.data ELSE <<>>
    IN  [pendingCount  |-> Len(p),
         reviewedCount |-> Cardinality(IdsWith(r, {"APPROVED", "REJECTED"}, 1)),
         approvedCount |-> Cardinality(IdsWith(r, {"APPROVED"}, 1)),
         rejectedCount |-> Cardinality(IdsWith(r, {"REJECTED"}, 1))]

\* mutant of Statistics: every reviewed id is added to the approved set
StatisticsApprovedAll(pending, reviewed) ==
    LET p == IF pending.defined THEN pending.data ELSE <<>>
        r == IF reviewed.defined THEN reviewed.data ELSE <<>>
    IN  [pendingCount  |-> Cardinality(IdsWith(p, {"SUBMITTED"}, 1)),
         reviewedCount |-> Cardinality(IdsWith(r, {"APPROVED", "REJECTED"}, 1)),
         approvedCount |-> Cardinality(IdsWith(r, {"APPROVED", "REJECTED"}, 1)),
         rejectedCount |-> Cardinality(IdsWith(r, {"REJECTED"}, 1))]

\* the statistics memo; a query's data is [defined, data], undefined before the
\* first result
Statistics(pending, reviewed) ==
    LET p == IF pending.defined THEN pending.data ELSE <<>>
        r == IF reviewed.defined THEN reviewed.data ELSE <<>>
    IN  [pendingCount  |-> Cardinality(IdsWith(p, {"SUBMITTED"}, 1)),
         reviewedCount |-> Cardinality(IdsWith(r, {"APPROVED", "REJECTED"}, 1)),
         approvedCount |-> Cardinality(IdsWith(r, {"APPROVED"}, 1)),
         rejectedCount |-> Cardinality(IdsWith(r, {"REJECTED"}, 1))]

\* ------------------------------------------------------------------ state

VARIABLES
    \* useState of the component
    selectedPlan, showReviewModal, error, success, activeTab, userOrgIds,
    isAuthChecked, isEvaluatorOnly, currentEvaluatorIds, organizationsMap,
    isInitialLoad,
    \* checkPermissions: where it is suspended, and whether it navigated to /login
    authPc, navigated,
    \* the two queries: data ([defined, data]), the isInvalidated flag, whether the
    \* data is within staleTime, the invocation of the queryFn in flight, and whether
    \* cancelled invocations are still running
    pendingPlans, reviewedPlans, isInvalidated, reviewedFresh, fetching, superseded,
    \* reviewMutation: the calls of mutationFn in flight, in the order issued
    mutations,
    \* setTimeout callbacks not yet run, in the order they were set: [target, delay]
    timers,
    \* the remote submission store, and for SpecFn the answers it is going to give
    store, answers,
    \* history: how many submits were issued, the ids whose submit succeeded, the
    \* remote calls the latest invocation of each queryFn issued
    submitCount, decidedIds, lastCalls

vars ==
    <<selectedPlan, showReviewModal, error, success, activeTab, userOrgIds,
      isAuthChecked, isEvaluatorOnly, currentEvaluatorIds, organizationsMap,
      isInitialLoad, authPc, navigated, pendingPlans, reviewedPlans, isInvalidated,
      reviewedFresh, fetching, superseded, mutations, timers, store, answers,
      submitCount, decidedIds, lastCalls>>

uiVars ==
    <<selectedPlan, showReviewModal, error, success, activeTab, timers>>

authVars ==
    <<userOrgIds, isAuthChecked, isEvaluatorOnly, currentEvaluatorIds,
      organizationsMap, isInitialLoad, authPc, navigated>>

queryVars ==
    <<pendingPlans, reviewedPlans, isInvalidated, reviewedFresh, fetching, superseded>>

Queries == {"pending", "reviewed"}

\* null of selectedPlan, error and success
Null == "null"
NoPlan == [isNull |-> TRUE]

Undefined == [defined |-> FALSE, data |-> <<>>]
Data(d) == [defined |-> TRUE, data |-> d]

\* no invocation in flight; failed: the latest one ended in its catch block
Idle == [running |-> FALSE, reqs |-> <<>>, outdated |-> FALSE, failed |-> FALSE]
Settled(failed) == [running |-> FALSE, reqs |-> <<>>, outdated |-> FALSE, failed |-> failed]

\* an outcome of a remote GET: the promise resolved with plans, or it rejected
Ok(plans) == [ok |-> TRUE, plans |-> plans]
Failed == [ok |-> FALSE, plans |-> <<>>]

NoCalls == [q \in Queries |-> <<>>]

\* useState initial values, and the query cache and the mutation before any use
Fresh ==
    /\ selectedPlan = NoPlan
    /\ showReviewModal = FALSE
    /\ error = Null
    /\ success = Null
    /\ activeTab = "pending"
    /\ isEvaluatorOnly = FALSE
    /\ navigated = FALSE
    /\ pendingPlans = Undefined
    /\ reviewedPlans = Undefined
    /\ isInvalidated = [q \in Queries |-> FALSE]
    /\ reviewedFresh = FALSE
    /\ fetching = [q \in Queries |-> Idle]
    /\ superseded = [q \in Queries |-> FALSE]
    /\ mutations = <<>>
    /\ timers = <<>>
    /\ submitCount = 0
    /\ decidedIds = {}
    /\ lastCalls = NoCalls

\* ------------------------------------------------------------------ SpecFn

\* the identity sets the builders are run with
FnIdentities == {<<{}, {7}>>, <<{1}, {}>>, <<{1}, {7}>>, <<{1, 2}, {7, 9}>>}

\* the organization name caches the builders are run with
FnOrgMaps == {<<>>, <<"Org A">>}

SubSeqOrEmpty(s, a, b) == IF a > b THEN <<>> ELSE SubSeq(s, a, b)

\* the answers of the store to the SUBMITTED, APPROVED and REJECTED calls: all of
\* `all`, cut at i and j, each call failing when its name is in `failing`
FnAnswers(all, i, j, failing) ==
    [SUBMITTED |-> IF "SUBMITTED" \in failing THEN Failed
                   ELSE Ok(SubSeqOrEmpty(all, 1, i)),
     APPROVED  |-> IF "APPROVED" \in failing THEN Failed
                   ELSE Ok(SubSeqOrEmpty(all, i + 1, j)),
     REJECTED  |-> IF "REJECTED" \in failing THEN Failed
                   ELSE Ok(SubSeqOrEmpty(all, j + 1, Len(all)))]

InitFn ==
    /\ Fresh
    /\ authPc = "done"
    /\ isAuthChecked = TRUE
    /\ isInitialLoad = FALSE
    /\ store = <<>>
    /\ \E ident \in FnIdentities :
          /\ userOrgIds = ident[1]
          /\ currentEvaluatorIds = ident[2]
    /\ organizationsMap \in FnOrgMaps
    /\ \E all \in SeqsUpTo(Plans, MaxResp), failing \in SUBSET Statuses :
          \E i \in 0 .. Len(all) :
             \E j \in i .. Len(all) :
                answers = FnAnswers(all, i, j, failing)

\* one whole invocation of the pendingPlans queryFn against the store's answer
FnPending ==
    /\ ~pendingPlans.defined
    /\ pendingPlans' =
          Data(PendingQueryFn(userOrgIds, currentEvaluatorIds, organizationsMap,
                              <<answers.SUBMITTED>>))
    /\ lastCalls' =
          [lastCalls EXCEPT !.pending = PendingRequests(userOrgIds, currentEvaluatorIds)]
    /\ UNCHANGED <<uiVars, authVars, reviewedPlans, isInvalidated, reviewedFresh,
                   fetching, superseded, mutations, store, answers, submitCount,
                   decidedIds>>

\* one whole invocation of the reviewedPlans queryFn against the store's answers
FnReviewed ==
    /\ ~reviewedPlans.defined
    /\ reviewedPlans' =
          Data(ReviewedQueryFn(userOrgIds, currentEvaluatorIds, organizationsMap,
                               <<answers.APPROVED, answers.REJECTED>>))
    /\ lastCalls' =
          [lastCalls EXCEPT !.reviewed = ReviewedRequests(userOrgIds, currentEvaluatorIds)]
    /\ UNCHANGED <<uiVars, authVars, pendingPlans, isInvalidated, reviewedFresh,
                   fetching, superseded, mutations, store, answers, submitCount,
                   decidedIds>>

NextFn == FnPending \/ FnReviewed

SpecFn == InitFn /\ [][NextFn]_vars

\* ------------------------------------------------------------------ remote side

\* answers of auth.getCurrentUser()
AuthPayloads ==
    {[isAuthenticated |-> FALSE, userOrganizations |-> <<>>],
     [isAuthenticated |-> TRUE, userOrganizations |-> <<>>],
     [isAuthenticated |-> TRUE,
      userOrganizations |-> <<[id |-> 8, organization |-> 1, role |-> "PLANNER"]>>],
     [isAuthenticated |-> TRUE,
      userOrganizations |-> <<[id |-> 7, organization |-> 1, role |-> "EVALUATOR"],
                              [id |-> 8, organization |-> 2, role |-> "ADMIN"]>>],
     [isAuthenticated |-> TRUE,
      userOrganizations |-> <<[id |-> 7, organization |-> 1, role |-> "EVALUATOR"],
                              [id |-> 8, organization |-> 2, role |-> "VIEWER"]>>]}

\* answers of organizations.getAll() that carry a data array: organization id -> name
Catalogs == {<<"Org A">>}

\* outcomes of organizations.getAll(): an answer with a data array, an answer
\* without one, a rejection
OrgAnswers ==
    {[ok |-> TRUE, isArray |-> TRUE, data |-> c] : c \in Catalogs}
        \cup {[ok |-> TRUE, isArray |-> FALSE, data |-> <<>>],
              [ok |-> FALSE, isArray |-> FALSE, data |-> <<>>]}

\* the submission store when the component mounts: every submission is submitted
\* and undecided, except that submission 1 may have been approved by role-record 7
InitialStores ==
    {[id \in PlanIds |->
         IF id = 1 /\ decided
         THEN [status |-> "APPROVED", reviews |-> <<[evaluator |-> 7]>>]
         ELSE [status |-> "SUBMITTED", reviews |-> <<>>]] : decided \in BOOLEAN}

\* GET /plans/?status=&organization=: the submissions of that status and of those
\* organizations, by ascending id, from id on
RECURSIVE StoreAnswer(_, _, _, _)
StoreAnswer(st, status, orgIds, id) ==
    IF id > MaxPlans THEN <<>>
    ELSE IF st[id].status = status /\ OrgOf(id) \in orgIds
         THEN <<[id |-> id, status |-> st[id].status, organization |-> OrgOf(id),
                 hasReviews |-> TRUE, reviews |-> st[id].reviews]>>
                  \o StoreAnswer(st, status, orgIds, id + 1)
         ELSE StoreAnswer(st, status, orgIds, id + 1)

\* POST /plans/{id}/approve/ or /reject/ accepted: the submission takes the outcome
\* and gains a decision record of the caller's role-record e
StoreDecide(st, id, status, e) ==
    [st EXCEPT ![id] = [status |-> status,
                        reviews |-> Append(st[id].reviews, [evaluator |-> e])]]

\* the ways a POST fails: refused with a status code, or, as 0, rejected with an
\* error that has neither a response nor a message
ErrorCodes == {0, 400, 403, 404, 500}

\* ------------------------------------------------------------------ identity check

\* isEvaluator of ../types/user: the caller holds a role-record with role EVALUATOR
isEvaluator(userOrganizations) ==
    \E i \in 1 .. Len(userOrganizations) : userOrganizations[i].role = "EVALUATOR"

Roles(userOrganizations) ==
    {userOrganizations[i].role : i \in 1 .. Len(userOrganizations)}

Init ==
    /\ Fresh
    /\ userOrgIds = {}
    /\ currentEvaluatorIds = {}
    /\ organizationsMap = <<>>
    /\ isAuthChecked = FALSE
    /\ isInitialLoad = TRUE
    /\ authPc = "getCurrentUser"
    /\ store \in InitialStores
    /\ answers = FnAnswers(<<>>, 0, 0, {})

\* ------------------------------------------------------------------ query cache

DataOf(q) == IF q = "pending" THEN pendingPlans ELSE reviewedPlans

Requests(q) ==
    IF q = "pending" THEN PendingRequests(userOrgIds, currentEvaluatorIds)
    ELSE ReviewedRequests(userOrgIds, currentEvaluatorIds)

\* the `enabled` option of the two queries, for given isAuthChecked and activeTab
PendingEnabled(authChecked) ==
    authChecked /\ userOrgIds # {} /\ currentEvaluatorIds # {}

\* mutant of ReviewedEnabled: the active tab is not consulted
ReviewedEnabledAnyTab(authChecked, tab) ==
    authChecked /\ userOrgIds # {} /\ currentEvaluatorIds # {}

ReviewedEnabled(authChecked, tab) ==
    authChecked /\ tab = "reviewed" /\ userOrgIds # {} /\ currentEvaluatorIds # {}

EnabledQueries(authChecked, tab) ==
    {q \in Queries : IF q = "pending" THEN PendingEnabled(authChecked)
                     ELSE ReviewedEnabled(authChecked, tab)}

\* a query is stale when it has no data, is invalidated, or is past staleTime; only
\* the reviewedPlans observer is ever re-enabled, so only its staleTime is consulted
IsStale(q) ==
    \/ ~DataOf(q).defined
    \/ isInvalidated[q]
    \/ q = "reviewed" /\ ~reviewedFresh

\* a run of the queryFn of q that has just issued its remote calls
NewInvocation(q) ==
    LET rq == Requests(q)
    IN  [running |-> rq # <<>>,
         reqs |-> [i \in 1 .. Len(rq) |->
                     [status |-> rq[i].status, organization |-> rq[i].organization,
                      phase |-> "sent", plans |-> <<>>]],
         outdated |-> FALSE, failed |-> FALSE]

\* Query.fetch: the queryFn runs anew unless a fetch is in flight, and also then when
\* cancelRefetch is set and the query has data (the fetch in flight is cancelled)
StartsFetch(q, cancelRefetch) ==
    \/ ~fetching[q].running
    \/ DataOf(q).defined /\ cancelRefetch

\* The query cache after Query.fetch was called on the queries `called`, the queries
\* `invalidated` were invalidated, and, when markOutdated, a submit has succeeded
\* while the invocations still in flight were running.  A queryFn that returns at
\* its guard settles at once.
QueryStep(called, cancelRefetch, invalidated, markOutdated) ==
    LET starts == {q \in called : StartsFetch(q, cancelRefetch)}
        atOnce == {q \in starts : Requests(q) = <<>>}
    IN  /\ fetching' =
              [q \in Queries |->
                  IF q \in starts THEN NewInvocation(q)
                  ELSE IF markOutdated /\ fetching[q].running
                       THEN [fetching[q] EXCEPT !.outdated = TRUE]
                       ELSE fetching[q]]
        /\ superseded' =
              [q \in Queries |-> superseded[q] \/ (q \in starts /\ fetching[q].running)]
        /\ lastCalls' =
              [q \in Queries |-> IF q \in starts THEN Requests(q) ELSE lastCalls[q]]
        /\ isInvalidated' =
              [q \in Queries |->
                  IF q \in atOnce THEN FALSE ELSE isInvalidated[q] \/ q \in invalidated]
        /\ pendingPlans' = IF "pending" \in atOnce THEN Data(<<>>) ELSE pendingPlans
        /\ reviewedPlans' = IF "reviewed" \in atOnce THEN Data(<<>>) ELSE reviewedPlans
        /\ reviewedFresh' = IF "reviewed" \in atOnce THEN TRUE ELSE reviewedFresh

\* ------------------------------------------------------------------ checkPermissions

\* mutant of CheckPermissionsUser: isAuthChecked is set before organizations.getAll()
\* is awaited, so the pendingPlans query is enabled and fetches at once
CheckPermissionsUserEarly ==
    /\ authPc = "getCurrentUser"
    /\ \/ \* the call rejects: catch, finally
          /\ error' = "Failed to verify your permissions"
          /\ isInitialLoad' = FALSE
          /\ authPc' = "done"
          /\ UNCHANGED <<navigated, userOrgIds, currentEvaluatorIds, isEvaluatorOnly,
                         isAuthChecked>>
       \/ \E authData \in AuthPayloads :
             LET orgs == authData.userOrganizations
             IN  IF ~authData.isAuthenticated
                 THEN /\ navigated' = TRUE
                      /\ isInitialLoad' = FALSE
                      /\ authPc' = "done"
                      /\ UNCHANGED <<error, userOrgIds, currentEvaluatorIds,
                                     isEvaluatorOnly, isAuthChecked>>
                 ELSE IF ~isEvaluator(orgs)
                 THEN /\ error' = "You do not have permission to access the evaluator dashboard"
                      /\ isInitialLoad' = FALSE
                      /\ authPc' = "done"
                      /\ UNCHANGED <<navigated, userOrgIds, currentEvaluatorIds,
                                     isEvaluatorOnly, isAuthChecked>>
                 ELSE IF Len(orgs) > 0
                 THEN /\ userOrgIds' = {orgs[i].organization : i \in 1 .. Len(orgs)}
                      /\ currentEvaluatorIds' =
                            {orgs[i].id : i \in {j \in 1 .. Len(orgs) :
                                                   orgs[j].role = "EVALUATOR"}}
                      /\ isEvaluatorOnly' =
                            /\ "EVALUATOR" \in Roles(orgs)
                            /\ "ADMIN" \notin Roles(orgs)
                            /\ "PLANNER" \notin Roles(orgs)
                      /\ authPc' = "getAll"
                      /\ isAuthChecked' = TRUE
                      /\ UNCHANGED <<error, navigated, isInitialLoad>>
                 ELSE /\ isAuthChecked' = TRUE
                      /\ isInitialLoad' = FALSE
                      /\ authPc' = "done"
                      /\ UNCHANGED <<error, navigated, userOrgIds, currentEvaluatorIds,
                                     isEvaluatorOnly>>
    /\ LET rq == PendingRequests(userOrgIds', currentEvaluatorIds')
       IN  /\ fetching' =
                 [fetching EXCEPT
                     !["pending"] =
                         [running |-> rq # <<>>,
                          reqs |-> [i \in 1 .. Len(rq) |->
                                      [status |-> rq[i].status,
                                       organization |-> rq[i].organization,
                                       phase |-> "sent", plans |-> <<>>]],
                          outdated |-> FALSE, failed |-> FALSE]]
           /\ lastCalls' = [lastCalls EXCEPT !["pending"] = rq]
    /\ UNCHANGED <<selectedPlan, showReviewModal, success, activeTab, timers,
                   organizationsMap, pendingPlans, reviewedPlans, isInvalidated,
                   reviewedFresh, superseded, mutations, store, answers, submitCount,
                   decidedIds>>

\* auth.getCurrentUser() settles: up to the await of organizations.getAll()
CheckPermissionsUser ==
    /\ authPc = "getCurrentUser"
    /\ \/ \* the call rejects: catch, finally
          /\ error' = "Failed to verify your permissions"
          /\ isInitialLoad' = FALSE
          /\ authPc' = "done"
          /\ UNCHANGED <<navigated, userOrgIds, currentEvaluatorIds, isEvaluatorOnly,
                         isAuthChecked>>
       \/ \E authData \in AuthPayloads :
             LET orgs == authData.userOrganizations
             IN  IF ~authData.isAuthenticated
                 THEN /\ navigated' = TRUE
                      /\ isInitialLoad' = FALSE
                      /\ authPc' = "done"
                      /\ UNCHANGED <<error, userOrgIds, currentEvaluatorIds,
                                     isEvaluatorOnly, isAuthChecked>>
                 ELSE IF ~isEvaluator(orgs)
                 THEN /\ error' = "You do not have permission to access the evaluator dashboard"
                      /\ isInitialLoad' = FALSE
                      /\ authPc' = "done"
                      /\ UNCHANGED <<navigated, userOrgIds, currentEvaluatorIds,
                                     isEvaluatorOnly, isAuthChecked>>
                 ELSE IF Len(orgs) > 0
                 THEN /\ userOrgIds' = {orgs[i].organization : i \in 1 .. Len(orgs)}
                      /\ currentEvaluatorIds' =
                            {orgs[i].id : i \in {j \in 1 .. Len(orgs) :
                                                   orgs[j].role = "EVALUATOR"}}
                      /\ isEvaluatorOnly' =
                            /\ "EVALUATOR" \in Roles(orgs)
                            /\ "ADMIN" \notin Roles(orgs)
                            /\ "PLANNER" \notin Roles(orgs)
                      /\ authPc' = "getAll"
                      /\ UNCHANGED <<error, navigated, isInitialLoad, isAuthChecked>>
                 ELSE /\ isAuthChecked' = TRUE
                      /\ isInitialLoad' = FALSE
                      /\ authPc' = "done"
                      /\ UNCHANGED <<error, navigated, userOrgIds, currentEvaluatorIds,
                                     isEvaluatorOnly>>
    /\ UNCHANGED <<selectedPlan, showReviewModal, success, activeTab, timers,
                   organizationsMap, queryVars, mutations, store, answers, submitCount,
                   decidedIds, lastCalls>>

\* mutant of CheckPermissionsOrgs: a rejection of organizations.getAll() reaches the
\* outer catch block
CheckPermissionsOrgsAborting(orgsResponse) ==
    /\ authPc = "getAll"
    /\ organizationsMap' =
          IF orgsResponse.ok /\ orgsResponse.isArray THEN orgsResponse.data
          ELSE organizationsMap
    /\ isAuthChecked' = orgsResponse.ok
    /\ error' = IF orgsResponse.ok THEN error ELSE "Failed to verify your permissions"
    /\ isInitialLoad' = FALSE
    /\ authPc' = "done"
    /\ QueryStep({q \in EnabledQueries(orgsResponse.ok, activeTab) : IsStale(q)},
                 FALSE, {}, FALSE)
    /\ UNCHANGED <<selectedPlan, showReviewModal, success, activeTab, timers,
                   userOrgIds, currentEvaluatorIds, isEvaluatorOnly, navigated,
                   mutations, store, answers, submitCount, decidedIds>>

\* organizations.getAll() settles with orgsResponse: the rest of checkPermissions
\* (a rejection is caught by the inner catch block), and the render that enables
\* the pendingPlans observer
CheckPermissionsOrgs(orgsResponse) ==
    /\ authPc = "getAll"
    /\ organizationsMap' =
          IF orgsResponse.ok /\ orgsResponse.isArray THEN orgsResponse.data
          ELSE organizationsMap
    /\ isAuthChecked' = TRUE
    /\ isInitialLoad' = FALSE
    /\ authPc' = "done"
    /\ QueryStep({q \in EnabledQueries(TRUE, activeTab) : IsStale(q)}, FALSE, {}, FALSE)
    /\ UNCHANGED <<uiVars, userOrgIds, currentEvaluatorIds, isEvaluatorOnly, navigated,
                   mutations, store, answers, submitCount, decidedIds>>

\* ------------------------------------------------------------------ view

\* error.includes('permission')
IncludesPermission(msg) ==
    msg \in {"You do not have permission to access the evaluator dashboard",
             "Failed to verify your permissions",
             "Permission denied. You may not have evaluator permissions."}

\* the render reaches the dashboard: past the loading gate and the access-denied gate
DashboardShown == isAuthChecked /\ ~(error # Null /\ IncludesPermission(error))

\* the review modal, a full-screen overlay, is rendered
ModalShown == DashboardShown /\ showReviewModal /\ ~selectedPlan.isNull

\* isLoading of the pendingPlans query: fetching with no data yet
loadingPending == fetching["pending"].running /\ ~pendingPlans.defined

\* a tab button is clicked
SetActiveTab(tab) ==
    /\ DashboardShown /\ ~ModalShown
    /\ tab # activeTab
    /\ activeTab' = tab
    /\ QueryStep({q \in {"reviewed"} : ReviewedEnabled(isAuthChecked, tab) /\ IsStale(q)},
                 FALSE, {}, FALSE)
    /\ UNCHANGED <<selectedPlan, showReviewModal, error, success, timers, authVars,
                   mutations, store, answers, submitCount, decidedIds>>

\* mutant of Refetch: refreshing also empties the organization name cache
RefetchClearingNames ==
    /\ DashboardShown /\ ~ModalShown
    /\ activeTab = "pending"
    /\ ~loadingPending
    /\ QueryStep({"pending"}, TRUE, {}, FALSE)
    /\ organizationsMap' = <<>>
    /\ UNCHANGED <<uiVars, userOrgIds, isAuthChecked, isEvaluatorOnly,
                   currentEvaluatorIds, isInitialLoad, authPc, navigated, mutations,
                   store, answers, submitCount, decidedIds>>

\* the Refresh button of the pending tab: refetch()
Refetch ==
    /\ DashboardShown /\ ~ModalShown
    /\ activeTab = "pending"
    /\ ~loadingPending
    /\ QueryStep({"pending"}, TRUE, {}, FALSE)
    /\ UNCHANGED <<uiVars, authVars, mutations, store, answers, submitCount, decidedIds>>

\* the Review button of a row of the pending table
handleReviewPlan(i) ==
    /\ DashboardShown /\ ~ModalShown
    /\ activeTab = "pending"
    /\ ~loadingPending
    /\ pendingPlans.defined
    /\ i \in 1 .. Len(pendingPlans.data)
    /\ selectedPlan' = [isNull |-> FALSE, plan |-> pendingPlans.data[i]]
    /\ showReviewModal' = TRUE
    /\ UNCHANGED <<error, success, activeTab, timers, authVars, queryVars, mutations,
                   store, answers, submitCount, decidedIds, lastCalls>>

\* onCancel of the review form
CancelReview ==
    /\ ModalShown
    /\ showReviewModal' = FALSE
    /\ selectedPlan' = NoPlan
    /\ UNCHANGED <<error, success, activeTab, timers, authVars, queryVars, mutations,
                   store, answers, submitCount, decidedIds, lastCalls>>

\* ------------------------------------------------------------------ reviewMutation

\* the feedback the review form hands over: none (Null), or a text
Feedbacks == {Null, "needs work"}

\* mutant of mutationFn: the POST always goes to the approve endpoint
mutationFnApproveOnly(planId, status, feedback) ==
    [planId |-> planId, endpoint |-> "approve", status |-> status,
     feedback |-> IF feedback = Null THEN "" ELSE feedback, phase |-> "sent"]

\* mutationFn up to its await: the POST it has issued, with reviewPayload
mutationFn(planId, status, feedback) ==
    [planId |-> planId,
     endpoint |-> IF status = "APPROVED" THEN "approve" ELSE "reject",
     status |-> status,
     feedback |-> IF feedback = Null THEN "" ELSE feedback,
     phase |-> "sent"]

\* the POSTs one call of handleReviewSubmit issues: none without a selected plan
SubmitCalls(selected, status, feedback) ==
    IF selected.isNull THEN <<>>
    ELSE <<mutationFn(selected.plan.id, status, feedback)>>

\* onSubmit of the review form: handleReviewSubmit up to the await; mutationFn has
\* issued its POST
handleReviewSubmit(status, feedback) ==
    /\ ModalShown
    /\ submitCount' = submitCount + 1
    /\ mutations' = mutations \o SubmitCalls(selectedPlan, status, feedback)
    /\ UNCHANGED <<uiVars, authVars, queryVars, store, answers, decidedIds, lastCalls>>

\* the store accepts the POST of mutations[i]
RemotePost(i) ==
    /\ i \in 1 .. Len(mutations)
    /\ mutations[i].phase = "sent"
    /\ \E e \in currentEvaluatorIds :
          store' = StoreDecide(store, mutations[i].planId,
                               IF mutations[i].endpoint = "approve" THEN "APPROVED"
                               ELSE "REJECTED", e)
    /\ mutations' = [mutations EXCEPT ![i].phase = "ok"]
    /\ UNCHANGED <<uiVars, authVars, queryVars, answers, submitCount, decidedIds,
                   lastCalls>>

RemoveAt(s, i) == SubSeqOrEmpty(s, 1, i - 1) \o SubSeqOrEmpty(s, i + 1, Len(s))

\* mutant of SubmitSucceeds: only the pendingPlans query is invalidated
SubmitSucceedsPendingOnly(i) ==
    /\ i \in 1 .. Len(mutations)
    /\ mutations[i].phase = "ok"
    /\ mutations' = RemoveAt(mutations, i)
    /\ QueryStep(EnabledQueries(isAuthChecked, activeTab) \cap {"pending"}, TRUE,
                 {"pending"}, TRUE)
    /\ showReviewModal' = FALSE
    /\ selectedPlan' = NoPlan
    /\ success' = "Plan review submitted successfully"
    /\ timers' = Append(timers, [target |-> "success", delay |-> SuccessDelay])
    /\ decidedIds' = decidedIds \cup {mutations[i].planId}
    /\ UNCHANGED <<error, activeTab, authVars, store, answers, submitCount>>

\* mutant of SubmitSucceeds: the queries are marked invalidated, none is fetched
SubmitSucceedsNoRefetch(i) ==
    /\ i \in 1 .. Len(mutations)
    /\ mutations[i].phase = "ok"
    /\ mutations' = RemoveAt(mutations, i)
    /\ QueryStep({}, TRUE, Queries, TRUE)
    /\ showReviewModal' = FALSE
    /\ selectedPlan' = NoPlan
    /\ success' = "Plan review submitted successfully"
    /\ timers' = Append(timers, [target |-> "success", delay |-> SuccessDelay])
    /\ decidedIds' = decidedIds \cup {mutations[i].planId}
    /\ UNCHANGED <<error, activeTab, authVars, store, answers, submitCount>>

\* mutant of SubmitSucceeds: the modal and the selection are left alone when another
\* submission is selected
SubmitSucceedsKeepingOther(i) ==
    /\ i \in 1 .. Len(mutations)
    /\ mutations[i].phase = "ok"
    /\ mutations' = RemoveAt(mutations, i)
    /\ QueryStep(EnabledQueries(isAuthChecked, activeTab), TRUE, Queries, TRUE)
    /\ IF ~selectedPlan.isNull /\ selectedPlan.plan.id # mutations[i].planId
       THEN UNCHANGED <<showReviewModal, selectedPlan>>
       ELSE showReviewModal' = FALSE /\ selectedPlan' = NoPlan
    /\ success' = "Plan review submitted successfully"
    /\ timers' = Append(timers, [target |-> "success", delay |-> SuccessDelay])
    /\ decidedIds' = decidedIds \cup {mutations[i].planId}
    /\ UNCHANGED <<error, activeTab, authVars, store, answers, submitCount>>

\* the POST of mutations[i] resolved: onSuccess
SubmitSucceeds(i) ==
    /\ i \in 1 .. Len(mutations)
    /\ mutations[i].phase = "ok"
    /\ mutations' = RemoveAt(mutations, i)
    /\ QueryStep(EnabledQueries(isAuthChecked, activeTab), TRUE, Queries, TRUE)
    /\ showReviewModal' = FALSE
    /\ selectedPlan' = NoPlan
    /\ success' = "Plan review submitted successfully"
    /\ timers' = Append(timers, [target |-> "success", delay |-> SuccessDelay])
    /\ decidedIds' = decidedIds \cup {mutations[i].planId}
    /\ UNCHANGED <<error, activeTab, authVars, store, answers, submitCount>>

\* error.message of a failed POST
ErrorMessage(code) ==
    IF code = 0 THEN "" ELSE "Request failed with status code " \o ToString(code)

\* mutant of SubmitErrorMessage: the message onError chooses, not classified by status
SubmitErrorMessageUnclassified(code) ==
    IF ErrorMessage(code) # "" THEN ErrorMessage(code) ELSE "Failed to submit review"

\* the message the catch block of handleReviewSubmit chooses
SubmitErrorMessage(code) ==
    IF code = 403 THEN "Permission denied. You may not have evaluator permissions."
    ELSE IF code = 404 THEN "Plan not found or no longer available for review."
    ELSE IF code = 400 THEN "Invalid review data. Please check your input."
    ELSE IF ErrorMessage(code) # "" THEN ErrorMessage(code)
    ELSE "Failed to submit review"

\* mutant of SubmitFails: the failure also invalidates both queries
SubmitFailsInvalidating(i, code) ==
    /\ i \in 1 .. Len(mutations)
    /\ mutations[i].phase = "sent"
    /\ mutations' = RemoveAt(mutations, i)
    /\ error' = SubmitErrorMessage(code)
    /\ timers' = timers \o <<[target |-> "error", delay |-> ErrorDelay],
                             [target |-> "error", delay |-> ErrorDelay]>>
    /\ QueryStep(EnabledQueries(isAuthChecked, activeTab), TRUE, Queries, FALSE)
    /\ UNCHANGED <<selectedPlan, showReviewModal, success, activeTab, authVars,
                   store, answers, submitCount, decidedIds>>

\* the POST of mutations[i] fails with `code`: onError sets its message and its
\* timeout, then the catch block of handleReviewSubmit sets its own
SubmitFails(i, code) ==
    /\ i \in 1 .. Len(mutations)
    /\ mutations[i].phase = "sent"
    /\ mutations' = RemoveAt(mutations, i)
    /\ error' = SubmitErrorMessage(code)
    /\ timers' = timers \o <<[target |-> "error", delay |-> ErrorDelay],
                             [target |-> "error", delay |-> ErrorDelay]>>
    /\ UNCHANGED <<selectedPlan, showReviewModal, success, activeTab, authVars,
                   queryVars, store, answers, submitCount, decidedIds, lastCalls>>

\* ------------------------------------------------------------------ timers

\* timers[i] is due no later than every timer still waiting: those set before it
\* have a longer delay (timers set after it are due later)
Due(i) == \A j \in 1 .. i - 1 : timers[j].delay > timers[i].delay

\* the timeout callback timers[i] runs
TimerFires(i) ==
    /\ i \in 1 .. Len(timers)
    /\ Due(i)
    /\ timers' = RemoveAt(timers, i)
    /\ IF timers[i].target = "success"
       THEN success' = Null /\ error' = error
       ELSE error' = Null /\ success' = success
    /\ UNCHANGED <<selectedPlan, showReviewModal, activeTab, authVars, queryVars,
                   mutations, store, answers, submitCount, decidedIds, lastCalls>>

\* ------------------------------------------------------------------ fetches

\* the store answers call i of the invocation of q in flight
RemoteGet(q, i) ==
    /\ fetching[q].running
    /\ i \in 1 .. Len(fetching[q].reqs)
    /\ fetching[q].reqs[i].phase = "sent"
    /\ fetching' =
          [fetching EXCEPT
              ![q].reqs[i].phase = "ok",
              ![q].reqs[i].plans =
                  StoreAnswer(store, fetching[q].reqs[i].status,
                              fetching[q].reqs[i].organization, 1)]
    /\ UNCHANGED <<uiVars, authVars, pendingPlans, reviewedPlans, isInvalidated,
                   reviewedFresh, superseded, mutations, store, answers, submitCount,
                   decidedIds, lastCalls>>

\* what the await of a call yields: its answer, or a rejection when it is in `failing`
Outcome(reqs, i, failing) ==
    IF i \in failing \/ reqs[i].phase # "ok" THEN Failed ELSE Ok(reqs[i].plans)

\* mutant of PendingSettles: the catch block surfaces the failure with setError
PendingSettlesSurfacing(failing) ==
    /\ fetching["pending"].running
    /\ failing # {} \/ fetching["pending"].reqs[1].phase = "ok"
    /\ pendingPlans' =
          Data(PendingQueryFn(userOrgIds, currentEvaluatorIds, organizationsMap,
                              <<Outcome(fetching["pending"].reqs, 1, failing)>>))
    /\ isInvalidated' = [isInvalidated EXCEPT !["pending"] = FALSE]
    /\ fetching' = [fetching EXCEPT !["pending"] = Settled(failing # {})]
    /\ error' = IF failing # {} THEN "Error fetching pending reviews" ELSE error
    /\ UNCHANGED <<selectedPlan, showReviewModal, success, activeTab, timers, authVars,
                   reviewedPlans, reviewedFresh, superseded, mutations, store, answers,
                   submitCount, decidedIds, lastCalls>>

\* mutant of PendingSettles: the builder returns nothing to a caller who also holds
\* an ADMIN or PLANNER role-record
PendingSettlesEvaluatorOnly(failing) ==
    /\ fetching["pending"].running
    /\ failing # {} \/ fetching["pending"].reqs[1].phase = "ok"
    /\ pendingPlans' =
          IF isEvaluatorOnly
          THEN Data(PendingQueryFn(userOrgIds, currentEvaluatorIds, organizationsMap,
                                   <<Outcome(fetching["pending"].reqs, 1, failing)>>))
          ELSE Data(<<>>)
    /\ isInvalidated' = [isInvalidated EXCEPT !["pending"] = FALSE]
    /\ fetching' = [fetching EXCEPT !["pending"] = Settled(failing # {})]
    /\ UNCHANGED <<uiVars, authVars, reviewedPlans, reviewedFresh, superseded,
                   mutations, store, answers, submitCount, decidedIds, lastCalls>>

\* mutant of PendingSettles: a failed call makes the query fail, and the query is
\* retried twice (retry: 2) before it settles
PendingSettlesRetrying(failing) ==
    /\ fetching["pending"].running
    /\ failing # {} \/ fetching["pending"].reqs[1].phase = "ok"
    /\ IF failing # {} /\ Len(lastCalls["pending"]) < 3
       THEN /\ fetching' = [fetching EXCEPT !["pending"] = NewInvocation("pending")]
            /\ lastCalls' =
                  [lastCalls EXCEPT !["pending"] = @ \o Requests("pending")]
            /\ UNCHANGED <<pendingPlans, isInvalidated>>
       ELSE /\ pendingPlans' =
                  Data(PendingQueryFn(userOrgIds, currentEvaluatorIds, organizationsMap,
                                      <<Outcome(fetching["pending"].reqs, 1, failing)>>))
            /\ isInvalidated' = [isInvalidated EXCEPT !["pending"] = FALSE]
            /\ fetching' = [fetching EXCEPT !["pending"] = Settled(failing # {})]
            /\ UNCHANGED lastCalls
    /\ UNCHANGED <<uiVars, authVars, reviewedPlans, reviewedFresh, superseded,
                   mutations, store, answers, submitCount, decidedIds>>

\* the queryFn of pendingPlans returns and the cache takes its result; the call has
\* been answered, or it fails
PendingSettles(failing) ==
    /\ fetching["pending"].running
    /\ failing # {} \/ fetching["pending"].reqs[1].phase = "ok"
    /\ pendingPlans' =
          Data(PendingQueryFn(userOrgIds, currentEvaluatorIds, organizationsMap,
                              <<Outcome(fetching["pending"].reqs, 1, failing)>>))
    /\ isInvalidated' = [isInvalidated EXCEPT !["pending"] = FALSE]
    /\ fetching' = [fetching EXCEPT !["pending"] = Settled(failing # {})]
    /\ UNCHANGED <<uiVars, authVars, reviewedPlans, reviewedFresh, superseded,
                   mutations, store, answers, submitCount, decidedIds, lastCalls>>

\* the queryFn of reviewedPlans returns and the cache takes its result: Promise.all
\* resolves when both calls are answered, and rejects as soon as one call fails
ReviewedSettles(failing) ==
    /\ fetching["reviewed"].running
    /\ LET reqs == fetching["reviewed"].reqs
       IN  /\ failing # {} \/ \A i \in 1 .. 2 : reqs[i].phase = "ok"
           /\ reviewedPlans' =
                 Data(ReviewedQueryFn(userOrgIds, currentEvaluatorIds, organizationsMap,
                                      <<Outcome(reqs, 1, failing),
                                        Outcome(reqs, 2, failing)>>))
    /\ isInvalidated' = [isInvalidated EXCEPT !["reviewed"] = FALSE]
    /\ reviewedFresh' = TRUE
    /\ fetching' = [fetching EXCEPT !["reviewed"] = Settled(failing # {})]
    /\ UNCHANGED <<uiVars, authVars, pendingPlans, superseded, mutations, store,
                   answers, submitCount, decidedIds, lastCalls>>

\* mutant of SupersededSettles: the cache takes the result of a cancelled invocation
SupersededSettlesInstalls(q) ==
    /\ superseded[q]
    /\ superseded' = [superseded EXCEPT ![q] = FALSE]
    /\ pendingPlans' = IF q = "pending" THEN Data(<<>>) ELSE pendingPlans
    /\ reviewedPlans' = IF q = "reviewed" THEN Data(<<>>) ELSE reviewedPlans
    /\ UNCHANGED <<uiVars, authVars, isInvalidated, reviewedFresh, fetching, mutations,
                   store, answers, submitCount, decidedIds, lastCalls>>

\* the cancelled invocations of q return; the cache ignores their results
SupersededSettles(q) ==
    /\ superseded[q]
    /\ superseded' = [superseded EXCEPT ![q] = FALSE]
    /\ UNCHANGED <<uiVars, authVars, pendingPlans, reviewedPlans, isInvalidated,
                   reviewedFresh, fetching, mutations, store, answers, submitCount,
                   decidedIds, lastCalls>>

\* staleTime (60000 ms) of the reviewedPlans data elapses
StaleTimeElapses ==
    /\ reviewedPlans.defined
    /\ reviewedFresh
    /\ reviewedFresh' = FALSE
    /\ UNCHANGED <<uiVars, authVars, pendingPlans, reviewedPlans, isInvalidated,
                   fetching, superseded, mutations, store, answers, submitCount,
                   decidedIds, lastCalls>>

\* ------------------------------------------------------------------ Spec

Next ==
    \/ CheckPermissionsUser
    \/ \E orgsResponse \in OrgAnswers : CheckPermissionsOrgs(orgsResponse)
    \/ \E tab \in {"pending", "reviewed"} : SetActiveTab(tab)
    \/ Refetch
    \/ \E i \in 1 .. MaxPlans : handleReviewPlan(i)
    \/ CancelReview
    \/ \E status \in {"APPROVED", "REJECTED"}, feedback \in Feedbacks :
          submitCount < MaxSubmits /\ handleReviewSubmit(status, feedback)
    \/ \E i \in 1 .. MaxSubmits : RemotePost(i)
    \/ \E i \in 1 .. MaxSubmits : SubmitSucceeds(i)
    \/ \E i \in 1 .. MaxSubmits, code \in ErrorCodes : SubmitFails(i, code)
    \/ \E i \in 1 .. 2 * MaxSubmits : TimerFires(i)
    \/ \E q \in Queries, i \in 1 .. 2 : RemoteGet(q, i)
    \/ \E failing \in SUBSET {1} : PendingSettles(failing)
    \/ \E failing \in SUBSET {1, 2} : ReviewedSettles(failing)
    \/ \E q \in Queries : SupersededSettles(q)
    \/ StaleTimeElapses

Spec == Init /\ [][Next]_vars

\* ------------------------------------------------------------------ SpecNotices

\* The dashboard of a user who stays on the pending tab and whose fetches succeed,
\* and who submits up to MaxNoticeSubmits times: the behaviours of Spec without
\* tab changes, refreshes and fetch failures, with more submits.
NextNotices ==
    \/ CheckPermissionsUser
    \/ \E orgsResponse \in OrgAnswers : CheckPermissionsOrgs(orgsResponse)
    \/ \E i \in 1 .. MaxPlans : handleReviewPlan(i)
    \/ CancelReview
    \/ \E status \in {"APPROVED", "REJECTED"} :
          submitCount < MaxNoticeSubmits /\ handleReviewSubmit(status, Null)
    \/ \E i \in 1 .. MaxNoticeSubmits : RemotePost(i)
    \/ \E i \in 1 .. MaxNoticeSubmits : SubmitSucceeds(i)
    \/ \E i \in 1 .. MaxNoticeSubmits, code \in ErrorCodes : SubmitFails(i, code)
    \/ \E i \in 1 .. 2 * MaxNoticeSubmits : TimerFires(i)
    \/ RemoteGet("pending", 1)
    \/ PendingSettles({})
    \/ SupersededSettles("pending")

SpecNotices == Init /\ [][NextNotices]_vars

\* ------------------------------------------------------------------ claims

\* the plan as the store returned it, without the builder's annotations
Bare(entry) ==
    [id |-> entry.id, status |-> entry.status, organization |-> entry.organization,
     hasReviews |-> entry.hasReviews, reviews |-> entry.reviews]

IdentityGiven == userOrgIds # {} /\ currentEvaluatorIds # {}

NoReviewOfCaller(plan) ==
    \A r \in 1 .. Len(plan.reviews) : plan.reviews[r].evaluator \notin currentEvaluatorIds

\* C1: after an invocation of the Pending-Set Builder with non-empty identity sets
\* whose fetch succeeded, a fetched submission is in the pending set iff its status
\* is SUBMITTED and none of its decision records is by a reviewer id of the caller
\* (an absent or empty collection passes), and the pending set holds nothing else.
C1_PendingSetIff ==
    (pendingPlans.defined /\ IdentityGiven /\ answers.SUBMITTED.ok) =>
        LET fetched == answers.SUBMITTED.plans
            out == pendingPlans.data
        IN  /\ \A i \in 1 .. Len(fetched) :
                  (\E k \in 1 .. Len(out) : Bare(out[k]) = fetched[i])
                      <=> (fetched[i].status = "SUBMITTED" /\ NoReviewOfCaller(fetched[i]))
            /\ \A k \in 1 .. Len(out) :
                  \E i \in 1 .. Len(fetched) : Bare(out[k]) = fetched[i]

\* C1 witness: of two fetched SUBMITTED submissions, the one reviewed only by a
\* colleague is kept and the one the caller reviewed is dropped
C1_Witness ==
    /\ pendingPlans.defined /\ answers.SUBMITTED.ok
    /\ currentEvaluatorIds = {7} /\ userOrgIds = {1}
    /\ Len(answers.SUBMITTED.plans) = 2
    /\ \A i \in 1 .. 2 : answers.SUBMITTED.plans[i].status = "SUBMITTED"
    /\ Len(pendingPlans.data) = 1
    /\ pendingPlans.data[1].reviews = <<[evaluator |-> 9]>>

AllPlans == answers.APPROVED.plans \o answers.REJECTED.plans

BothFetched ==
    reviewedPlans.defined /\ IdentityGiven /\ answers.APPROVED.ok /\ answers.REJECTED.ok

Decided(plan) ==
    /\ plan.status \in {"APPROVED", "REJECTED"}
    /\ \E r \in 1 .. Len(plan.reviews) : plan.reviews[r].evaluator \in currentEvaluatorIds

\* C2: after an invocation of the Decided-Set Builder whose two fetches succeeded,
\* a returned submission is in the decided set iff its status is APPROVED or
\* REJECTED and one of its decision records is by a reviewer id of the caller; no
\* entry of the decided set has another status.
C2_DecidedSetIff ==
    BothFetched =>
        /\ \A k \in 1 .. Len(reviewedPlans.data) : Decided(reviewedPlans.data[k])
        /\ \A i \in 1 .. Len(AllPlans) :
              Decided(AllPlans[i]) =>
                  \E k \in 1 .. Len(reviewedPlans.data) :
                     reviewedPlans.data[k].id = AllPlans[i].id

\* the first occurrence of id in allPlans that has a decision record of the caller
FirstOccurrence(id) ==
    CHOOSE n \in 1 .. Len(AllPlans) :
        /\ AllPlans[n].id = id /\ ~NoReviewOfCaller(AllPlans[n])
        /\ \A m \in 1 .. n - 1 : ~(AllPlans[m].id = id /\ ~NoReviewOfCaller(AllPlans[m]))

\* C3: the decided set holds each submission id at most once, and the entry kept
\* for an id is its first occurrence, in approved-then-rejected order, that has a
\* decision record of the caller.
C3_FirstSeenWins ==
    BothFetched =>
        LET out == reviewedPlans.data
        IN  /\ \A k, l \in 1 .. Len(out) : out[k].id = out[l].id => k = l
            /\ \A k \in 1 .. Len(out) :
                  /\ \E n \in 1 .. Len(AllPlans) :
                        AllPlans[n].id = out[k].id /\ ~NoReviewOfCaller(AllPlans[n])
                  /\ Bare(out[k]) = AllPlans[FirstOccurrence(out[k].id)]

\* C3 witness: the approved and the rejected answer return the same id with
\* different contents, both decided by the caller; the approved one is kept
C3_Witness ==
    /\ BothFetched
    /\ Len(answers.APPROVED.plans) = 1 /\ Len(answers.REJECTED.plans) = 1
    /\ answers.APPROVED.plans[1].id = answers.REJECTED.plans[1].id
    /\ answers.APPROVED.plans[1] # answers.REJECTED.plans[1]
    /\ ~NoReviewOfCaller(answers.APPROVED.plans[1])
    /\ ~NoReviewOfCaller(answers.REJECTED.plans[1])
    /\ Len(reviewedPlans.data) = 1
    /\ Bare(reviewedPlans.data[1]) = answers.APPROVED.plans[1]

\* C4: every entry of the decided set carries one attributed decision record,
\* which is one of the entry's own records, is by a reviewer id of the caller, and
\* is the first such record in the submission's order.
C4_FirstMatchingReview ==
    BothFetched =>
        \A k \in 1 .. Len(reviewedPlans.data) :
            LET entry == reviewedPlans.data[k]
            IN  \E r \in 1 .. Len(entry.reviews) :
                   /\ entry.currentEvaluatorReview = entry.reviews[r]
                   /\ entry.reviews[r].evaluator \in currentEvaluatorIds
                   /\ \A q \in 1 .. r - 1 :
                         entry.reviews[q].evaluator \notin currentEvaluatorIds

\* C4 witness: an entry whose first record is a colleague's and whose second is the
\* caller's is attributed the second
C4_Witness ==
    /\ BothFetched
    /\ currentEvaluatorIds = {7}
    /\ \E k \in 1 .. Len(reviewedPlans.data) :
          /\ reviewedPlans.data[k].reviews = <<[evaluator |-> 9], [evaluator |-> 7]>>
          /\ reviewedPlans.data[k].currentEvaluatorReview = [evaluator |-> 7]

\* C5: while organizationIds or reviewerRecordIds is empty, no builder has issued
\* a remote call or has one in flight, and every result a builder returned is empty.
C5_EmptyIdentityNoCall ==
    (userOrgIds = {} \/ currentEvaluatorIds = {}) =>
        \A q \in Queries :
            /\ lastCalls[q] = <<>>
            /\ ~fetching[q].running
            /\ DataOf(q).data = <<>>

\* C5 witness: both builders were invoked with an empty reviewer-id set against a
\* store that has submissions to return
C5_Witness ==
    /\ currentEvaluatorIds = {} /\ userOrgIds # {}
    /\ pendingPlans.defined /\ reviewedPlans.defined
    /\ answers.SUBMITTED.ok /\ Len(answers.SUBMITTED.plans) > 0
    /\ answers.SUBMITTED.plans[1].status = "SUBMITTED"
    /\ answers.APPROVED.ok /\ Len(answers.APPROVED.plans) > 0

Stats == Statistics(pendingPlans, reviewedPlans)

\* C6: in every state of the dashboard, reviewedCount = approvedCount + rejectedCount.
C6_ReviewedIsApprovedPlusRejected ==
    Stats.reviewedCount = Stats.approvedCount + Stats.rejectedCount

\* C6 witness: the decided set holds an approved and a rejected submission
C6_Witness ==
    /\ isAuthChecked
    /\ Stats.approvedCount = 1 /\ Stats.rejectedCount = 1 /\ Stats.reviewedCount = 2

SeqOf(query) == IF query.defined THEN query.data ELSE <<>>

DistinctIds(data, statuses) ==
    {data[i].id : i \in {j \in 1 .. Len(data) : data[j].status \in statuses}}

\* C7: for every pair of builder outputs, pendingCount is the number of distinct
\* ids of the pending entries with status SUBMITTED, reviewedCount that of the
\* decided entries with status APPROVED or REJECTED, and approvedCount and
\* rejectedCount those of the decided entries with status APPROVED and REJECTED.
C7_CountsAreDistinctIds ==
    /\ Stats.pendingCount =
          Cardinality(DistinctIds(SeqOf(pendingPlans), {"SUBMITTED"}))
    /\ Stats.reviewedCount =
          Cardinality(DistinctIds(SeqOf(reviewedPlans), {"APPROVED", "REJECTED"}))
    /\ Stats.approvedCount = Cardinality(DistinctIds(SeqOf(reviewedPlans), {"APPROVED"}))
    /\ Stats.rejectedCount = Cardinality(DistinctIds(SeqOf(reviewedPlans), {"REJECTED"}))

\* C7 witness: the pending set holds the same id twice and it is counted once
C7_Witness ==
    /\ pendingPlans.defined /\ reviewedPlans.defined
    /\ Len(pendingPlans.data) = 2
    /\ pendingPlans.data[1].id = pendingPlans.data[2].id
    /\ Stats.pendingCount = 1

\* the step in which the invocation of q in flight returns and the cache takes its
\* result
Settles(q) == fetching[q].running /\ ~fetching'[q].running

\* C8: when a fetch of a builder invocation fails, the invocation returns the empty
\* result, which replaces the builder's data like any other result, and the
\* dashboard's error state is left as it was.
C8_FetchFailureYieldsEmpty ==
    [][\A q \in Queries :
          (Settles(q) /\ fetching'[q].failed) =>
              /\ DataOf(q)' = Data(<<>>)
              /\ ~isInvalidated'[q]
              /\ error' = error]_vars

\* C8 witness: both builders' latest fetches failed, their results are empty although
\* the store holds a submitted submission and one the caller approved, and no error
\* is shown
C8_Witness ==
    /\ fetching["pending"].failed /\ fetching["reviewed"].failed
    /\ pendingPlans = Data(<<>>) /\ reviewedPlans = Data(<<>>)
    /\ store[1].status = "APPROVED" /\ store[2].status = "SUBMITTED"
    /\ error = Null

\* the step in which onSuccess of a submit runs
OnSuccess ==
    \E i \in 1 .. Len(mutations) :
        mutations[i].phase = "ok" /\ mutations' = RemoveAt(mutations, i)

\* the step in which a timeout callback set by onSuccess runs
SuccessTimerRuns ==
    \E i \in 1 .. Len(timers) :
        timers[i].target = "success" /\ timers' = RemoveAt(timers, i)

\* C9: when a submit succeeds, both queries are marked invalidated, the modal is
\* closed, the selection is cleared, the success notice is shown and a callback
\* that clears it is set to run after 3000 ms.
C9_SuccessEffects ==
    [][/\ OnSuccess =>
             /\ \A q \in Queries : isInvalidated'[q]
             /\ ~showReviewModal'
             /\ selectedPlan' = NoPlan
             /\ success' = "Plan review submitted successfully"
             /\ timers' = Append(timers, [target |-> "success", delay |-> 3000])
       /\ SuccessTimerRuns => success' = Null]_vars

\* C9 witness: right after a successful submit
C9_Witness ==
    /\ decidedIds # {}
    /\ \A q \in Queries : isInvalidated[q]
    /\ ~showReviewModal /\ selectedPlan = NoPlan
    /\ success = "Plan review submitted successfully"
    /\ timers = <<[target |-> "success", delay |-> 3000]>>

\* C10: after a submit for X has succeeded, every result the cache takes comes from
\* a fetch issued after that success, and a pending set the cache takes does not
\* contain X.
C10_NextFetchReflectsSubmit ==
    [][\A q \in Queries :
          Settles(q) =>
              /\ ~fetching[q].outdated
              /\ q = "pending" =>
                    \A k \in 1 .. Len(pendingPlans'.data) :
                        pendingPlans'.data[k].id \notin decidedIds]_vars

\* after the step, an invocation of q issued in this step or after the latest
\* successful submit is in flight
FreshlyFetching(q) == fetching'[q].running /\ ~fetching'[q].outdated

\* the reviewedPlans query is in the middle of its first fetch
FirstReviewedFetch == fetching["reviewed"].running /\ ~reviewedPlans.defined

ExpectedNotice(code) ==
    CASE code = 403 -> "Permission denied. You may not have evaluator permissions."
      [] code = 404 -> "Plan not found or no longer available for review."
      [] code = 400 -> "Invalid review data. Please check your input."
      [] code = 500 -> "Request failed with status code 500"
      [] OTHER -> "Failed to submit review"

\* the step in which a timeout callback set for an error notice runs
ErrorTimerRuns ==
    \E i \in 1 .. Len(timers) :
        timers[i].target = "error" /\ timers' = RemoveAt(timers, i)

\* C12: when a submit fails, the error notice shown once the failure is handled is
\* the one its status code determines (403, 404, 400: the fixed messages; otherwise
\* the error's own message, or the generic one when it has none), every callback
\* set for it runs after 5000 ms, and such a callback clears the notice.
C12_FailureNoticeByCode ==
    [][/\ \A i \in 1 .. MaxSubmits, code \in ErrorCodes :
             SubmitFails(i, code) =>
                 /\ error' = ExpectedNotice(code)
                 /\ Len(timers') > Len(timers)
                 /\ \A k \in Len(timers) + 1 .. Len(timers') :
                       timers'[k] = [target |-> "error", delay |-> 5000]
       /\ ErrorTimerRuns => error' = Null]_vars

\* C12 witness: a submit was refused with 404; its notice is shown and the callbacks
\* that clear it are waiting
C12_Witness ==
    /\ submitCount > 0 /\ mutations = <<>> /\ decidedIds = {}
    /\ error = "Plan not found or no longer available for review."
    /\ Len(timers) > 0
    /\ \A k \in 1 .. Len(timers) : timers[k].target = "error"

\* the render stops at the access-denied panel
AccessDeniedShown == isAuthChecked /\ error # Null /\ IncludesPermission(error)

\* C13: a failed submit, whatever its status code, leaves the dashboard in its
\* normal view with a notice shown, never at the access-denied panel.
C13_FailedSubmitNeverBlocks ==
    [][\A i \in 1 .. MaxSubmits, code \in ErrorCodes :
          SubmitFails(i, code) =>
              (DashboardShown' /\ ~AccessDeniedShown' /\ error' # Null)]_vars

\* which of the three returns of the render is taken
View ==
    IF ~isAuthChecked THEN "loading"
    ELSE IF error # Null /\ IncludesPermission(error) THEN "access denied"
    ELSE "dashboard"

\* checkPermissions has ended by refusing the caller: no EVALUATOR role-record, or
\* the identity call failed
IdentityRefused ==
    /\ authPc = "done"
    /\ error \in {"You do not have permission to access the evaluator dashboard",
                  "Failed to verify your permissions"}

\* C14: once the identity check has refused the caller, the view is the blocking
\* error panel, not the loading state, and no builder has issued a fetch.
C14_RefusedShowsPanel ==
    IdentityRefused =>
        /\ View = "access denied"
        /\ lastCalls = NoCalls
        /\ \A q \in Queries : ~fetching[q].running /\ ~DataOf(q).defined

\* C15: a submit with a selected submission issues exactly one POST, for the
\* selected id, to the approve endpoint iff the outcome is APPROVED and to the
\* reject endpoint iff it is REJECTED, carrying the outcome and the feedback, the
\* empty string when there is none; no other step issues a POST, so a failed one
\* is not issued again.
C15_OneCallPerSubmit ==
    [][/\ \A status \in {"APPROVED", "REJECTED"}, feedback \in Feedbacks :
             (handleReviewSubmit(status, feedback) /\ ~selectedPlan.isNull) =>
                 /\ Len(mutations') = Len(mutations) + 1
                 /\ SubSeqOrEmpty(mutations', 1, Len(mutations)) = mutations
                 /\ LET call == mutations'[Len(mutations')]
                    IN  /\ call.planId = selectedPlan.plan.id
                        /\ call.endpoint = "approve" <=> status = "APPROVED"
                        /\ call.endpoint = "reject" <=> status = "REJECTED"
                        /\ call.status = status
                        /\ call.feedback = (IF feedback = Null THEN "" ELSE feedback)
                        /\ call.phase = "sent"
       /\ submitCount' = submitCount => Len(mutations') <= Len(mutations)
       /\ \A i \in 1 .. MaxSubmits, code \in ErrorCodes :
             SubmitFails(i, code) => Len(mutations') = Len(mutations) - 1]_vars

\* C15 witness: a submit of REJECTED without feedback has its one POST in flight
C15_Witness ==
    /\ submitCount = 1
    /\ Len(mutations) = 1
    /\ mutations[1].endpoint = "reject" /\ mutations[1].status = "REJECTED"
    /\ mutations[1].feedback = ""
    /\ mutations[1].phase = "sent"

\* the synthesized name of an organization id
FallbackName(org) == IF org = 1 THEN "Organization 1" ELSE "Organization 2"

\* every entry of either builder's result carries the cached name of its
\* organization, or the synthesized name when the cache has none
NamesResolved ==
    \A q \in Queries :
        \A k \in 1 .. Len(DataOf(q).data) :
            LET entry == DataOf(q).data[k]
            IN  entry.organizationName =
                    IF entry.organization \in DOMAIN organizationsMap
                    THEN organizationsMap[entry.organization]
                    ELSE FallbackName(entry.organization)

SupersededArrives(q) == superseded[q] /\ ~superseded'[q]

C18_BothFetchesJoin ==
    [][\A failing \in SUBSET {1, 2} :
          ReviewedSettles(failing) =>
              \A i \in 1 .. 2 :
                  i \in failing \/ fetching["reviewed"].reqs[i].phase = "ok"]_vars

\* how many calls with a status the latest invocation of the queryFn of q issued
Attempts(q, status) ==
    Cardinality({i \in 1 .. Len(lastCalls[q]) : lastCalls[q][i].status = status})

\* C19: one builder invocation issues each of its fetches at most twice; a POST is
\* issued only by a submit, never again after it failed; the identity call and
\* the organization call are each made once.
C19_NoAutomaticRetry ==
    [][/\ \A q \in Queries, status \in Statuses : Attempts(q, status)' <= 2
       /\ submitCount' = submitCount => Len(mutations') <= Len(mutations)
       /\ authPc = "getAll" => authPc' \in {"getAll", "done"}
       /\ authPc = "done" => authPc' = "done"]_vars

\* C19 witness: a submit has failed and, later, a fetch of the pending-set builder
\* has failed; the builder made the one attempt and no call is in flight
C19_Witness ==
    /\ submitCount = 1 /\ mutations = <<>> /\ decidedIds = {}
    /\ fetching["pending"].failed /\ ~fetching["pending"].running
    /\ Attempts("pending", "SUBMITTED") = 1
    /\ authPc = "done"

\* C20: the organization name cache changes only in the identity check, when the
\* bulk organization fetch succeeds: from empty to that fetch's answer, before any
\* builder has been invoked; it is therefore written at most once and never
\* changes afterwards.
C20_NameCacheWrittenOnce ==
    [][organizationsMap' # organizationsMap =>
          /\ authPc = "getAll" /\ authPc' = "done"
          /\ organizationsMap = <<>>
          /\ organizationsMap' \in Catalogs
          /\ ~isAuthChecked
          /\ lastCalls = NoCalls
          /\ \A q \in Queries : ~fetching[q].running /\ ~DataOf(q).defined]_vars

\* C20 witness: the cache was written, a builder has read it, and a submit has
\* succeeded since
C20_Witness ==
    /\ organizationsMap = <<"Org A">>
    /\ decidedIds # {}
    /\ Len(reviewedPlans.data) > 0
    /\ reviewedPlans.data[1].organizationName = "Org A"

\* the plans the calls of the invocation of q in flight were answered with
FetchedBy(q) ==
    LET reqs == fetching[q].reqs
    IN  UNION {{reqs[i].plans[k] : k \in 1 .. Len(reqs[i].plans)} :
                 i \in 1 .. Len(reqs)}

\* C21: the identity check takes as reviewer ids the ids of the EVALUATOR
\* role-records (7; not 8) and as organization ids the organizations of all
\* role-records (1 and 2); and whatever the value of isEvaluatorOnly, a builder
\* whose fetches succeeded returns what the fetched plans, the reviewer ids and
\* nothing else determine: the pending set is the fetched plans that are SUBMITTED
\* and carry no review of the caller, the reviewed set is one fetched plan for each
\* fetched id that carries a review of the caller.
C21_IdentitySetsFlagIgnored ==
    [][/\ (authPc = "getCurrentUser" /\ authPc' = "getAll") =>
             (currentEvaluatorIds' = {7} /\ userOrgIds' = {1, 2})
       /\ PendingSettles({}) =>
             {Bare(pendingPlans'.data[k]) : k \in 1 .. Len(pendingPlans'.data)} =
                 {plan \in FetchedBy("pending") :
                     plan.status = "SUBMITTED" /\ NoReviewOfCaller(plan)}
       /\ ReviewedSettles({}) =>
             LET out == {Bare(reviewedPlans'.data[k]) :
                           k \in 1 .. Len(reviewedPlans'.data)}
                 own == {plan \in FetchedBy("reviewed") : ~NoReviewOfCaller(plan)}
             IN  /\ out \subseteq own
                 /\ {plan.id : plan \in out} = {plan.id : plan \in own}]_vars

\* C21 witness: a caller with an EVALUATOR and a VIEWER role-record (evaluator
\* only) has both sets loaded and non-empty
C21_Witness ==
    /\ isEvaluatorOnly
    /\ currentEvaluatorIds = {7} /\ userOrgIds = {1, 2}
    /\ Len(pendingPlans.data) > 0
    /\ Len(reviewedPlans.data) > 0

\* the submission ids of the current output of a builder
IdsOf(q) == {DataOf(q).data[k].id : k \in 1 .. Len(DataOf(q).data)}

\* C22: in every reachable state no submission id is both in the current pending
\* set and in the current decided set.
C22_SetsDisjoint == IdsOf("pending") \cap IdsOf("reviewed") = {}

\* the submit of mutations[i] is for another submission than the one now selected
OtherSelected(i) ==
    ~selectedPlan.isNull /\ selectedPlan.plan.id # mutations[i].planId

\* C23 as stated: when the success callback of a submit for A runs while another
\* submission B is selected, B's selection and open modal are left unchanged.
C23_OtherSelectionKept ==
    [][\A i \in 1 .. MaxSubmits :
          (SubmitSucceeds(i) /\ OtherSelected(i)) =>
              (selectedPlan' = selectedPlan /\ showReviewModal' = showReviewModal)]_vars

\* C23 amended: the success callback of a submit for A clears the selection and
\* closes the modal also when another submission B is selected by then.
C23_OtherSelectionCleared ==
    [][\A i \in 1 .. MaxSubmits :
          (SubmitSucceeds(i) /\ OtherSelected(i)) =>
              (selectedPlan' = NoPlan /\ ~showReviewModal')]_vars

\* C23 witness: the POST for one submission was accepted and its success callback
\* is about to run while the review modal is open for another submission
C23_Witness ==
    /\ Len(mutations) = 1 /\ mutations[1].phase = "ok"
    /\ OtherSelected(1)
    /\ ModalShown

\* in this step the decided-set builder is invoked and issues its calls
ReviewedIssued ==
    /\ \/ fetching'["reviewed"] # fetching["reviewed"]
       \/ ~superseded["reviewed"] /\ superseded'["reviewed"]
    /\ fetching'["reviewed"].running /\ ~fetching'["reviewed"].outdated
    /\ \A i \in 1 .. Len(fetching'["reviewed"].reqs) :
          fetching'["reviewed"].reqs[i].phase = "sent"

\* C24: the decided-set builder issues its calls only in a step that leaves the
\* reviewed tab active; the reviewed tab is never active without the builder
\* having been invoked, so "never invoked" is "never activated"; and as long as
\* it was never invoked, reviewedCount, approvedCount and rejectedCount are 0.
C24_DecidedFetchOnlyOnReviewedTab ==
    [][/\ ReviewedIssued => activeTab' = "reviewed"
       /\ lastCalls'["reviewed"] # lastCalls["reviewed"] => activeTab' = "reviewed"
       /\ activeTab' = "reviewed" => lastCalls'["reviewed"] # <<>>
       /\ lastCalls'["reviewed"] = <<>> =>
             (reviewedPlans' = Undefined /\ ~fetching'["reviewed"].running)
       /\ lastCalls["reviewed"] = <<>> =>
             /\ Stats.reviewedCount = 0
             /\ Stats.approvedCount = 0
             /\ Stats.rejectedCount = 0]_vars

\* C24 witness: the caller has decided both submissions, one of them in this
\* session, the pending set was refetched since, and the decided-set builder has
\* never been invoked: the reviewed counts are 0
C24_Witness ==
    /\ lastCalls["reviewed"] = <<>>
    /\ activeTab = "pending"
    /\ decidedIds # {}
    /\ \A id \in PlanIds : store[id].status \in {"APPROVED", "REJECTED"}
    /\ pendingPlans = Data(<<>>)
    /\ Stats.reviewedCount = 0

\* C25: a failed submit leaves both query caches as they were (not invalidated, no
\* fetch started, data kept) and leaves the selection and the modal's open state
\* unchanged; a submit without a selected submission issues no call.
C25_FailureLeavesCachesAndSelection ==
    [][/\ \A i \in 1 .. MaxSubmits, code \in ErrorCodes :
             SubmitFails(i, code) =>
                 /\ isInvalidated' = isInvalidated
                 /\ fetching' = fetching /\ superseded' = superseded
                 /\ lastCalls' = lastCalls
                 /\ pendingPlans' = pendingPlans /\ reviewedPlans' = reviewedPlans
                 /\ selectedPlan' = selectedPlan
                 /\ showReviewModal' = showReviewModal
       /\ \A status \in {"APPROVED", "REJECTED"}, feedback \in Feedbacks :
             SubmitCalls(NoPlan, status, feedback) = <<>>]_vars

\* C25 witness: a submit has failed; the modal is still open on the submission,
\* the pending set is still loaded and not invalidated, nothing is being fetched
C25_Witness ==
    /\ submitCount = 1 /\ mutations = <<>> /\ decidedIds = {}
    /\ error = "Invalid review data. Please check your input."
    /\ showReviewModal /\ ~selectedPlan.isNull
    /\ Len(pendingPlans.data) > 0
    /\ \A q \in Queries : ~isInvalidated[q] /\ ~fetching[q].running

\* how many callbacks that clear the notice `target` are waiting
Waiting(target) ==
    Cardinality({k \in 1 .. Len(timers) : timers[k].target = target})

\* C26: a timer never clears a notice before the notice's own interval has
\* elapsed.  A success sets one callback and a failure two, and callbacks of one
\* kind run in the order they were set, so a callback that clears a shown notice
\* while callbacks of a later outcome are still waiting (another success callback;
\* more than one other error callback) is clearing that later outcome's notice
\* early.
C26_NoticeKeepsItsInterval ==
    [][\A i \in 1 .. 2 * MaxNoticeSubmits :
          TimerFires(i) =>
              /\ (timers[i].target = "success" /\ success # Null) =>
                    Waiting("success")' = 0
              /\ (timers[i].target = "error" /\ error # Null) =>
                    Waiting("error")' <= 1]_vars

\* a call to the submission store has been issued for q, or q holds a result
Touched(q) == lastCalls[q] # <<>> \/ fetching[q].running \/ DataOf(q).defined

\* C27: whenever a builder has issued a fetch, the identity check has ended
\* successfully before: the organization ids and the reviewer ids are set, the
\* check is marked done, and the fetch carries those organization ids; and for an
\* unauthenticated caller, who is sent to /login, no submission-store fetch and no
\* organization fetch is ever issued.
C27_FetchAfterIdentity ==
    /\ \A q \in Queries :
          Touched(q) =>
              /\ authPc = "done" /\ isAuthChecked
              /\ userOrgIds # {} /\ currentEvaluatorIds # {}
              /\ \A i \in 1 .. Len(lastCalls[q]) :
                    lastCalls[q][i].organization = userOrgIds
    /\ navigated =>
          /\ authPc = "done" /\ ~isAuthChecked
          /\ userOrgIds = {} /\ organizationsMap = <<>>
          /\ \A q \in Queries : ~Touched(q)

\* C27 witness: both builders have fetched, with the organization ids the identity
\* check has set
C27_Witness ==
    /\ isAuthChecked /\ authPc = "done"
    /\ userOrgIds = {1, 2} /\ currentEvaluatorIds = {7}
    /\ \A q \in Queries :
          lastCalls[q] # <<>> /\ lastCalls[q][1].organization = {1, 2}

====
